---------------------------- MODULE Spec2Model ----------------------------
(***************************************************************************)
(* Two-party direct-messaging backend (Django / DRF application            *)
(* "threads").  The store is the relational schema of threads/models.py    *)
(* (threads, the thread_participants join table, messages); the actions    *)
(* are the request handlers of threads/views.py, the admin actions of      *)
(* threads/admin.py and the management command setup_test_data.            *)
(*                                                                         *)
(* ORM queries are modelled by the rows they select: a queryset filter is  *)
(* a set comprehension over the tables.  Lookups are read by their evident *)
(* meaning: sender_id__ne = x is "sender is not x", select_related and     *)
(* prefetch_related are fetch hints that do not change the rows returned.  *)
(* The Thread model of models.py has no creator column, so a thread row is *)
(* its id and the creator_id passed to Thread.objects.create is not        *)
(* stored.                                                                 *)
(*                                                                         *)
(* Handlers run concurrently.  The two handlers that check and then       *)
(* write in separate queries (ThreadListCreateAPI.post and                 *)
(* MessageListCreateAPI.post) are split at that point, so that other       *)
(* requests interleave between the check and the write; every other        *)
(* handler is one step.  The response a handler returns is held in resp    *)
(* until it is sent (send_response), which happens before the next step.   *)
(* The read handlers write nothing; they are exercised, next to the        *)
(* writes, in QuerySpec.  Query parameters limit and offset are absent and *)
(* no page size is configured, so lists are returned whole.                *)
(***************************************************************************)
EXTENDS Integers, FiniteSets, Sequences, Bags, TLC

(* ----------------------------- bounds ---------------------------------- *)
MaxThreads  == 2   \* thread rows ever inserted
MaxMessages == 2   \* message rows ever inserted
NumWorkers  == 2   \* handlers that may be between their check and their write at once

(* ------------------------- program constants --------------------------- *)
max_length == 1000           \* MessageCreateSerializer.text

HTTP_200_OK          == 200
HTTP_201_CREATED     == 201
HTTP_204_NO_CONTENT  == 204
HTTP_400_BAD_REQUEST == 400
HTTP_403_FORBIDDEN   == 403
HTTP_404_NOT_FOUND   == 404
HTTP_500_INTERNAL_SERVER_ERROR == 500

(* ------------------------------ users ---------------------------------- *)
admin   == 1                 \* the accounts setup_test_data seeds
user1   == 2
user2   == 3
Users   == {admin, user1, user2}
Staff   == {admin}           \* is_staff
UserIds == Users \cup {4}     \* ids a request may name; 4 is no user
Texts   == {"hi"}            \* message bodies a request may carry
None    == 0

is_staff(u) == u \in Staff

VARIABLES
    threads,              \* Thread table: the ids of its rows
    thread_participants,  \* join table of Thread.participants: <<thread id, user id>>
    messages,             \* Message table: id -> [thread, sender, text, is_read]
    nextThreadId,         \* autoincrement of Thread.id
    nextMessageId,        \* autoincrement of Message.id
    inflight,             \* bag of the requests whose handler has passed its check
                          \* and not yet written: "create_thread" or "create_message"
    resp                  \* the API response returned by the last step and not yet
                          \* sent (op "none": there is none)

vars  == <<threads, thread_participants, messages, nextThreadId, nextMessageId,
           inflight, resp>>
store == <<threads, thread_participants, messages>>

\* a request in flight
\* (of a create-or-get only the set of the two ids matters to its write)
ThreadRequest(user, participant_id) ==
    [kind |-> "create_thread", users |-> {user, participant_id},
     thread |-> None, text |-> ""]
MessageRequest(user, thread_id, text) ==
    [kind |-> "create_message", users |-> {user},
     thread |-> thread_id, text |-> text]
NoResp == [op |-> "none", status |-> 0, thread |-> None, created |-> FALSE,
           data |-> <<>>]

\* a response without a body
Response(op, status) == [NoResp EXCEPT !.op = op, !.status = status]
\* the response of create-or-get: the thread returned, and whether it was created
ThreadResponse(thread, created) ==
    [op |-> "create_thread", status |-> HTTP_201_CREATED, thread |-> thread,
     created |-> created, data |-> <<>>]
\* the response of a read: the ids of the rows listed, in order, or the count
DataResponse(op, data) ==
    [NoResp EXCEPT !.op = op, !.status = HTTP_200_OK, !.data = data]

Min(S) == CHOOSE x \in S : \A y \in S : x <= y

\* rows in the order of their created column: ids are issued in creation
\* order, so this is ascending id
Max(S) == CHOOSE x \in S : \A y \in S : x >= y
Asc(S) == IF S = {} THEN <<>>
          ELSE SelectSeq([i \in 1..Max(S) |-> i], LAMBDA i : i \in S)
Reverse(q) == [i \in 1..Len(q) |-> q[Len(q) + 1 - i]]
Range(q) == {q[i] : i \in 1..Len(q)}

\* values of the ?ordering= query parameter ("" when it is absent)
Orderings == {"", "created", "-created"}

(* participants of a thread: Thread.participants.all() *)
participants_in(links, t) == {l[2] : l \in {k \in links : k[1] = t}}
participants(t) == participants_in(thread_participants, t)

Init ==
    /\ threads = {}
    /\ thread_participants = {}
    /\ messages = <<>>
    /\ nextThreadId = 1
    /\ nextMessageId = 1
    /\ inflight = EmptyBag
    /\ resp = NoResp


(* ------------------------- serializers.py ------------------------------ *)
\* variant: the serializer without its check
validate_participant_id_any(user, value) == TRUE

(* ThreadCreateSerializer.validate_participant_id: TRUE iff the value is   *)
(* accepted (it is rejected when it names the requester).                  *)
validate_participant_id(user, value) == value # user

(* MessageCreateSerializer: text = CharField(max_length=1000) *)
MessageCreateSerializer_is_valid(text) == Len(text) <= max_length

(* --------------------------- services.py ------------------------------- *)
\* variant: the lookup without the participant_count = 2 filter
get_thread_by_participants_any(user_id, participant_id) ==
    LET found == {t \in threads : \E l \in thread_participants :
                        l[1] = t /\ l[2] \in {user_id, participant_id}}
    IN  IF found = {} THEN None ELSE Min(found)

(* ThreadService.get_thread_by_participants: threads joined to the         *)
(* participant rows whose user is one of the two ids, kept when that join  *)
(* has 2 rows; first() under Meta.ordering = ['created'] is the oldest,    *)
(* which is the smallest id.                                               *)
get_thread_by_participants(user_id, participant_id) ==
    LET matching(t) == {l \in thread_participants :
                            l[1] = t /\ l[2] \in {user_id, participant_id}}
        found == {t \in threads : Cardinality(matching(t)) = 2}
    IN  IF found = {} THEN None ELSE Min(found)

(* ThreadService.create_thread_with_participant: one transaction inserting *)
(* the thread row and setting its participants.                            *)
create_thread_with_participant(creator_and_participant) ==
    /\ threads' = threads \cup {nextThreadId}
    /\ thread_participants' = thread_participants \cup
           {<<nextThreadId, u>> : u \in creator_and_participant}
    /\ nextThreadId' = nextThreadId + 1

\* variant: the row inserted as already read
create_message_read(sender_id, thread_id, text) ==
    [thread |-> thread_id, sender |-> sender_id, text |-> text, is_read |-> TRUE]

(* MessageService.create_message: the inserted row; is_read defaults to    *)
(* False (models.py).                                                      *)
create_message(sender_id, thread_id, text) ==
    [thread |-> thread_id, sender |-> sender_id, text |-> text, is_read |-> FALSE]

\* variants: the check without the participants__id filter
check_thread_participant_exists(thread_id, user_id) == thread_id \in threads
check_thread_participant_any(thread_id, user_id) ==
    thread_id \in threads /\ user_id \in Users

(* MessageService.check_thread_participant *)
check_thread_participant(thread_id, user_id) ==
    /\ thread_id \in threads
    /\ <<thread_id, user_id>> \in thread_participants

\* variant: the update writing False to the rows it selects among the read ones
mark_messages_as_read_unread(user_id, message_ids) ==
    [m \in DOMAIN messages |->
        IF /\ m \in message_ids
           /\ <<messages[m].thread, user_id>> \in thread_participants
           /\ messages[m].sender # user_id
        THEN [messages[m] EXCEPT !.is_read = FALSE]
        ELSE messages[m]]

\* variant: the update reaching only the first of the rows it selects
mark_messages_as_read_first(user_id, message_ids) ==
    [m \in DOMAIN messages |->
        IF /\ m \in message_ids
           /\ m = Min(message_ids)
           /\ <<messages[m].thread, user_id>> \in thread_participants
           /\ messages[m].is_read = FALSE
           /\ messages[m].sender # user_id
        THEN [messages[m] EXCEPT !.is_read = TRUE]
        ELSE messages[m]]

\* variant: the update without the join on the user's threads
mark_messages_as_read_any(user_id, message_ids) ==
    [m \in DOMAIN messages |->
        IF /\ m \in message_ids
           /\ messages[m].is_read = FALSE
           /\ messages[m].sender # user_id
        THEN [messages[m] EXCEPT !.is_read = TRUE]
        ELSE messages[m]]

(* MessageService.mark_messages_as_read: the Message table after the       *)
(* filtered update.                                                        *)
mark_messages_as_read(user_id, message_ids) ==
    [m \in DOMAIN messages |->
        IF /\ m \in message_ids
           /\ <<messages[m].thread, user_id>> \in thread_participants
           /\ messages[m].is_read = FALSE
           /\ messages[m].sender # user_id
        THEN [messages[m] EXCEPT !.is_read = TRUE]
        ELSE messages[m]]

\* variant: the permission without the sender test
can_mark_message_as_read_sender(user, message) ==
    is_staff(user) \/ <<message.thread, user>> \in thread_participants

(* MessageService.can_mark_message_as_read; the last conjunct is            *)
(* message.thread.participants.filter(id=user.id).exists()                 *)
can_mark_message_as_read(user, message) ==
    is_staff(user) \/
        ( /\ message.sender # user
          /\ <<message.thread, user>> \in thread_participants )

\* variant: the count without the exclude(sender_id=user_id)
get_unread_count_all(user_id) ==
    Cardinality({m \in DOMAIN messages :
                    /\ <<messages[m].thread, user_id>> \in thread_participants
                    /\ messages[m].is_read = FALSE})

(* MessageService.get_unread_count: the message rows joined to the         *)
(* participant row of user_id in their thread (at most one per message,    *)
(* the join table being a set), unread, minus those user_id sent.          *)
get_unread_count(user_id) ==
    Cardinality({m \in DOMAIN messages :
                    /\ <<messages[m].thread, user_id>> \in thread_participants
                    /\ messages[m].is_read = FALSE
                    /\ ~(messages[m].sender = user_id)})

(* UserService.get_user_unread_messages_count: the same query *)
get_user_unread_messages_count(user_id) ==
    Cardinality({m \in DOMAIN messages :
                    /\ <<messages[m].thread, user_id>> \in thread_participants
                    /\ messages[m].is_read = FALSE
                    /\ ~(messages[m].sender = user_id)})

(* MessageService.get_thread_messages: order_by('created') *)
get_thread_messages(thread_id) ==
    Asc({m \in DOMAIN messages : messages[m].thread = thread_id})

(* Thread.created (auto_now_add) and Thread.updated (auto_now): both are   *)
(* written when the row is inserted, and no handler, admin action or       *)
(* command saves a thread row afterwards (participants.set writes the m2m  *)
(* table only), so both keep the order of insertion, which is the order of *)
(* the ids.                                                                *)
Thread_created(t) == t
Thread_updated(t) == t

\* variant: the queryset keeps Meta.ordering = ['created']
get_user_threads_created(user_id) ==
    Asc({t \in threads : <<t, user_id>> \in thread_participants})

(* UserService.get_user_threads: order_by('-updated').  No handler saves a *)
(* thread after inserting it, so updated (auto_now) keeps the order of     *)
(* insertion and '-updated' is newest first.                               *)
get_user_threads(user_id) ==
    Reverse(Asc({t \in threads : <<t, user_id>> \in thread_participants}))

(* Message.created (auto_now_add): the order of insertion, which is the    *)
(* order of the ids.                                                       *)
Message_created(m) == m

(* ThreadService.get_user_threads: the same query *)
ThreadService_get_user_threads(user_id) ==
    Reverse(Asc({t \in threads : <<t, user_id>> \in thread_participants}))

(* --------------------------- permissions.py ---------------------------- *)
(* IsAdmin.has_permission *)
IsAdmin_has_permission(user) == is_staff(user)

\* variant: the permission granted to any authenticated user
IsParticipant_has_permission_any(user, user_id) == TRUE

(* IsParticipant.has_permission: the requester is the user of the path, or *)
(* is staff                                                                *)
IsParticipant_has_permission(user, user_id) == user = user_id \/ is_staff(user)

(* ----------------------------- views.py -------------------------------- *)
\* variant: the handler without the "participant exists" test
User_exists_any(id) == TRUE

(* ThreadListCreateAPI.post: User.objects.filter(id=participant_id).exists() *)
User_exists(id) == id \in Users

Pending(kind) ==
    BagCardinality([r \in {q \in BagToSet(inflight) : q.kind = kind} |-> inflight[r]])
PendingThreads  == Pending("create_thread")
PendingMessages == Pending("create_message")

\* a worker is free to take a request through its check
Free == BagCardinality(inflight) < NumWorkers

\* the response of the previous step has been sent
Sent == resp = NoResp

(* ThreadListCreateAPI.post, up to and including the lookup *)
ThreadListCreateAPI_post(user, participant_id) ==
    /\ Sent /\ Free
    /\ IF ~validate_participant_id(user, participant_id) THEN
            /\ resp' = Response("create_thread", HTTP_400_BAD_REQUEST)
            /\ UNCHANGED <<store, nextThreadId, nextMessageId, inflight>>
       ELSE IF ~User_exists(participant_id) THEN
            /\ resp' = Response("create_thread", HTTP_404_NOT_FOUND)
            /\ UNCHANGED <<store, nextThreadId, nextMessageId, inflight>>
       ELSE LET thread == get_thread_by_participants(user, participant_id) IN
            IF thread # None THEN
                /\ resp' = ThreadResponse(thread, FALSE)
                /\ UNCHANGED <<store, nextThreadId, nextMessageId, inflight>>
            ELSE
                /\ nextThreadId + PendingThreads <= MaxThreads
                /\ inflight' = inflight (+) SetToBag({ThreadRequest(user, participant_id)})
                /\ resp' = NoResp
                /\ UNCHANGED <<store, nextThreadId, nextMessageId>>

(* ThreadListCreateAPI.post, from "if thread is None" on *)
ThreadListCreateAPI_post_create(r) ==
    /\ Sent
    /\ BagIn(r, inflight) /\ r.kind = "create_thread"
    /\ create_thread_with_participant(r.users)
    /\ resp' = ThreadResponse(nextThreadId, TRUE)
    /\ inflight' = inflight (-) SetToBag({r})
    /\ UNCHANGED <<messages, nextMessageId>>

\* variant: the permission granted to staff as well
ThreadDetailAPI_check_object_permissions_staff(user, pk) ==
    is_staff(user) \/ user \in participants(pk)

(* ThreadDetailAPI.check_object_permissions: TRUE iff permission is granted *)
ThreadDetailAPI_check_object_permissions(user, pk) == user \in participants(pk)

(* ThreadDetailAPI.delete; the delete cascades to the thread's participant *)
(* rows and messages (Message.thread on_delete=CASCADE).                   *)
ThreadDetailAPI_delete(user, pk) ==
    /\ Sent
    /\ IF pk \notin threads THEN
            /\ resp' = Response("delete_thread", HTTP_404_NOT_FOUND)
            /\ UNCHANGED store
       ELSE IF ~ThreadDetailAPI_check_object_permissions(user, pk) THEN
            /\ resp' = Response("delete_thread", HTTP_403_FORBIDDEN)
            /\ UNCHANGED store
       ELSE
            /\ threads' = threads \ {pk}
            /\ thread_participants' = {l \in thread_participants : l[1] # pk}
            /\ messages' = [m \in {k \in DOMAIN messages : messages[k].thread # pk}
                                |-> messages[m]]
            /\ resp' = Response("delete_thread", HTTP_204_NO_CONTENT)
    /\ UNCHANGED <<nextThreadId, nextMessageId, inflight>>

\* variant: the foreign key is not enforced
Message_thread_fk_unchecked(thread_id) == TRUE

(* Message.thread = ForeignKey(Thread): a message row cannot be inserted   *)
(* for a thread row that is gone (IntegrityError).                         *)
Message_thread_fk(thread_id) == thread_id \in threads

(* MessageListCreateAPI.post, up to and including the serializer *)
MessageListCreateAPI_post(user, thread_id, text) ==
    /\ Sent /\ Free
    /\ IF ~check_thread_participant(thread_id, user) THEN
            /\ resp' = Response("create_message", HTTP_403_FORBIDDEN)
            /\ UNCHANGED <<inflight>>
       ELSE IF ~MessageCreateSerializer_is_valid(text) THEN
            /\ resp' = Response("create_message", HTTP_400_BAD_REQUEST)
            /\ UNCHANGED <<inflight>>
       ELSE
            /\ nextMessageId + PendingMessages <= MaxMessages
            /\ inflight' = inflight (+) SetToBag({MessageRequest(user, thread_id, text)})
            /\ resp' = NoResp
    /\ UNCHANGED <<store, nextThreadId, nextMessageId>>

(* MessageListCreateAPI.post, from service.create_message on *)
MessageListCreateAPI_post_create(r) ==
    /\ Sent
    /\ BagIn(r, inflight) /\ r.kind = "create_message"
    /\ IF Message_thread_fk(r.thread) THEN
            /\ messages' = messages @@ (nextMessageId :>
                    create_message(CHOOSE u \in r.users : TRUE, r.thread, r.text))
            /\ nextMessageId' = nextMessageId + 1
            /\ resp' = Response("create_message", HTTP_201_CREATED)
       ELSE
            /\ resp' = Response("create_message", HTTP_500_INTERNAL_SERVER_ERROR)
            /\ UNCHANGED <<messages, nextMessageId>>
    /\ inflight' = inflight (-) SetToBag({r})
    /\ UNCHANGED <<threads, thread_participants, nextThreadId>>

(* MessageListCreateAPI.patch: mark all messages of the thread as read *)
MessageListCreateAPI_patch(user, thread_id) ==
    /\ Sent
    /\ IF ~check_thread_participant(thread_id, user) THEN
            /\ resp' = Response("mark_all", HTTP_403_FORBIDDEN)
            /\ UNCHANGED messages
       ELSE LET message_ids == {m \in DOMAIN messages :
                                    /\ messages[m].thread = thread_id
                                    /\ messages[m].is_read = FALSE
                                    /\ messages[m].sender # user}
            IN  /\ messages' = mark_messages_as_read(user, message_ids)
                /\ resp' = Response("mark_all", HTTP_204_NO_CONTENT)
    /\ UNCHANGED <<threads, thread_participants, nextThreadId, nextMessageId, inflight>>

\* variant: the message's thread is not compared with the thread of the path
MessageDetailAPI_patch_any(user, thread_id, pk) ==
    /\ Sent
    /\ IF pk \notin DOMAIN messages THEN
            /\ resp' = Response("mark_one", HTTP_404_NOT_FOUND)
            /\ UNCHANGED messages
       ELSE IF ~can_mark_message_as_read(user, messages[pk]) THEN
            /\ resp' = Response("mark_one", HTTP_403_FORBIDDEN)
            /\ UNCHANGED messages
       ELSE
            /\ messages' = mark_messages_as_read(user, {pk})
            /\ resp' = Response("mark_one", HTTP_204_NO_CONTENT)
    /\ UNCHANGED <<threads, thread_participants, nextThreadId, nextMessageId, inflight>>

(* MessageDetailAPI.patch: mark one message as read *)
MessageDetailAPI_patch(user, thread_id, pk) ==
    /\ Sent
    /\ IF pk \notin DOMAIN messages THEN          \* get_object()
            /\ resp' = Response("mark_one", HTTP_404_NOT_FOUND)
            /\ UNCHANGED messages
       ELSE IF messages[pk].thread # thread_id THEN
            /\ resp' = Response("mark_one", HTTP_404_NOT_FOUND)
            /\ UNCHANGED messages
       ELSE IF ~can_mark_message_as_read(user, messages[pk]) THEN
            /\ resp' = Response("mark_one", HTTP_403_FORBIDDEN)
            /\ UNCHANGED messages
       ELSE
            /\ messages' = mark_messages_as_read(user, {pk})
            /\ resp' = Response("mark_one", HTTP_204_NO_CONTENT)
    /\ UNCHANGED <<threads, thread_participants, nextThreadId, nextMessageId, inflight>>

\* variant: the ordering named by the request is not looked at
OrderingFilter_fixed(queryset, ordering, default) ==
    IF default = "created" THEN Asc(Range(queryset))
    ELSE IF default = "-created" THEN Reverse(Asc(Range(queryset)))
    ELSE queryset

(* filter_backends = [.., OrderingFilter], ordering_fields = ["created"]:   *)
(* a valid ?ordering= reorders the queryset, otherwise the view's default  *)
(* ordering applies, or the queryset's own order when the view has none.   *)
OrderingFilter(queryset, ordering, default) ==
    LET by == IF ordering \in {"created", "-created"} THEN ordering ELSE default
    IN  IF by = "created" THEN Asc(Range(queryset))
        ELSE IF by = "-created" THEN Reverse(Asc(Range(queryset)))
        ELSE queryset

(* MessageListCreateAPI.get (ordering = ["created"]): permission_classes   *)
(* is IsAuthenticated alone and get_queryset does not look at the          *)
(* requester.                                                              *)
MessageListCreateAPI_get_response(user, thread_id, ordering) ==
    DataResponse("list_messages",
                 OrderingFilter(get_thread_messages(thread_id), ordering, "created"))

MessageListCreateAPI_get(user, thread_id, ordering) ==
    /\ Sent
    /\ resp' = MessageListCreateAPI_get_response(user, thread_id, ordering)
    /\ UNCHANGED <<store, nextThreadId, nextMessageId, inflight>>

(* ThreadListCreateAPI.get: the threads of the requester; the view sets no *)
(* default ordering.                                                       *)
ThreadListCreateAPI_get_response(user, ordering) ==
    DataResponse("list_own_threads",
                 OrderingFilter(ThreadService_get_user_threads(user), ordering, ""))

ThreadListCreateAPI_get(user, ordering) ==
    /\ Sent
    /\ resp' = ThreadListCreateAPI_get_response(user, ordering)
    /\ UNCHANGED <<store, nextThreadId, nextMessageId, inflight>>

(* UserThreadListAPI.get: permission_classes IsAdmin | IsParticipant; the  *)
(* view sets no default ordering.                                          *)
UserThreadListAPI_get_response(user, user_id, ordering) ==
    IF ~(IsAdmin_has_permission(user) \/ IsParticipant_has_permission(user, user_id))
    THEN Response("list_threads", HTTP_403_FORBIDDEN)
    ELSE DataResponse("list_threads",
                      OrderingFilter(get_user_threads(user_id), ordering, ""))

UserThreadListAPI_get(user, user_id, ordering) ==
    /\ Sent
    /\ resp' = UserThreadListAPI_get_response(user, user_id, ordering)
    /\ UNCHANGED <<store, nextThreadId, nextMessageId, inflight>>

(* UserUnreadMessagesCountAPI.get *)
UserUnreadMessagesCountAPI_get_response(user, user_id) ==
    IF ~(IsAdmin_has_permission(user) \/ IsParticipant_has_permission(user, user_id))
    THEN Response("unread_count", HTTP_403_FORBIDDEN)
    ELSE DataResponse("unread_count", <<get_user_unread_messages_count(user_id)>>)

UserUnreadMessagesCountAPI_get(user, user_id) ==
    /\ Sent
    /\ resp' = UserUnreadMessagesCountAPI_get_response(user, user_id)
    /\ UNCHANGED <<store, nextThreadId, nextMessageId, inflight>>

(* ----------------------------- admin.py -------------------------------- *)
(* queryset.update(is_read=...) on the rows selected in the admin list *)
queryset_update(queryset, is_read) ==
    [m \in DOMAIN messages |->
        IF m \in queryset THEN [messages[m] EXCEPT !.is_read = is_read]
        ELSE messages[m]]

(* MessageAdmin.mark_as_read *)
MessageAdmin_mark_as_read(user, queryset) ==
    /\ Sent
    /\ is_staff(user)
    /\ queryset # {}
    /\ messages' = queryset_update(queryset, TRUE)
    /\ resp' = NoResp
    /\ UNCHANGED <<threads, thread_participants, nextThreadId, nextMessageId, inflight>>

(* MessageAdmin.mark_as_unread *)
MessageAdmin_mark_as_unread(user, queryset) ==
    /\ Sent
    /\ is_staff(user)
    /\ queryset # {}
    /\ messages' = queryset_update(queryset, FALSE)
    /\ resp' = NoResp
    /\ UNCHANGED <<threads, thread_participants, nextThreadId, nextMessageId, inflight>>

(* ------------- management/commands/setup_test_data.py ------------------ *)
(* Command.handle: two threads, each with participants user1 and user2,    *)
(* and two messages in the first one.                                      *)
setup_test_data ==
    /\ Sent
    /\ nextThreadId + 1 + PendingThreads <= MaxThreads
    /\ nextMessageId + 1 + PendingMessages <= MaxMessages
    /\ LET thread1 == nextThreadId
           thread2 == nextThreadId + 1
       IN  /\ threads' = threads \cup {thread1, thread2}
           /\ thread_participants' = thread_participants \cup
                    {<<thread1, user1>>, <<thread1, user2>>,
                     <<thread2, user1>>, <<thread2, user2>>}
           /\ messages' = messages
                    @@ (nextMessageId :>
                            create_message(user1, thread1, "Hello from user1!"))
                    @@ (nextMessageId + 1 :>
                            create_message(user2, thread1, "Hi user1!"))
    /\ nextThreadId' = nextThreadId + 2
    /\ nextMessageId' = nextMessageId + 2
    /\ resp' = NoResp
    /\ UNCHANGED <<inflight>>

(* return response.Response(...): the response leaves before the next step *)
send_response ==
    /\ resp # NoResp
    /\ resp' = NoResp
    /\ UNCHANGED <<store, nextThreadId, nextMessageId, inflight>>

(* --------------------------- specification ----------------------------- *)
ThreadIds  == 1..MaxThreads
MessageIds == 1..MaxMessages

\* a request of the HTTP API arrives and its handler runs up to its first write
ApiBegin ==
    \/ \E u \in Users, p \in UserIds : ThreadListCreateAPI_post(u, p)
    \/ \E u \in Users, t \in ThreadIds : ThreadDetailAPI_delete(u, t)
    \/ \E u \in Users, t \in ThreadIds, x \in Texts : MessageListCreateAPI_post(u, t, x)
    \/ \E u \in Users, t \in ThreadIds : MessageListCreateAPI_patch(u, t)
    \/ \E u \in Users, t \in ThreadIds, m \in MessageIds : MessageDetailAPI_patch(u, t, m)

\* the admin site and the management command
AdminBegin ==
    \/ \E u \in Users, q \in SUBSET DOMAIN messages : MessageAdmin_mark_as_read(u, q)
    \/ \E u \in Users, q \in SUBSET DOMAIN messages : MessageAdmin_mark_as_unread(u, q)
    \/ setup_test_data

Begin == ApiBegin \/ AdminBegin

\* a handler that has passed its check performs its write
Continue ==
    \/ \E r \in BagToSet(inflight) : ThreadListCreateAPI_post_create(r)
    \/ \E r \in BagToSet(inflight) : MessageListCreateAPI_post_create(r)

Next == (Sent /\ (Begin \/ Continue)) \/ send_response

Spec == Init /\ [][Next]_vars

\* requests served one at a time: a request arrives only when no handler is
\* between its check and its write
AllIdle == inflight = EmptyBag

SeqNext == (Sent /\ ((AllIdle /\ Begin) \/ Continue)) \/ send_response

SeqSpec == Init /\ [][SeqNext]_vars

\* the HTTP API alone, handlers running concurrently
ApiNext == (Sent /\ (ApiBegin \/ Continue)) \/ send_response

ApiSpec == Init /\ [][ApiNext]_vars

\* a read request of the HTTP API
ReadBegin ==
    \/ \E u \in Users, o \in Orderings : ThreadListCreateAPI_get(u, o)
    \/ \E u \in Users, t \in ThreadIds, o \in Orderings : MessageListCreateAPI_get(u, t, o)
    \/ \E u \in Users, i \in UserIds, o \in Orderings : UserThreadListAPI_get(u, i, o)
    \/ \E u \in Users, i \in UserIds : UserUnreadMessagesCountAPI_get(u, i)

\* reads and writes, requests served one at a time (a read is one step and
\* writes nothing, so it is the same wherever it falls between writes)
QueryNext == (Sent /\ ((AllIdle /\ (Begin \/ ReadBegin)) \/ Continue)) \/ send_response

QuerySpec == Init /\ [][QueryNext]_vars

(* The thread lookup on any table of participant rows: the m2m table has   *)
(* no constraint on the number of rows per thread, so the lookup is        *)
(* applied to every table of rows over the existing threads and users.     *)
LookupInit ==
    /\ threads \in SUBSET ThreadIds
    /\ thread_participants \in SUBSET (threads \X Users)
    /\ messages = <<>>
    /\ nextThreadId \in {n \in 1..(MaxThreads + 1) : \A t \in threads : t < n}
    /\ nextMessageId = 1
    /\ inflight = EmptyBag
    /\ resp = NoResp

\* POST /threads/ served one request at a time
LookupNext ==
    \/ Sent /\ AllIdle /\ \E u \in Users, p \in UserIds : ThreadListCreateAPI_post(u, p)
    \/ Sent /\ \E r \in BagToSet(inflight) : ThreadListCreateAPI_post_create(r)
    \/ send_response

LookupSpec == LookupInit /\ [][LookupNext]_vars

TypeOK ==
    /\ threads \subseteq ThreadIds
    /\ thread_participants \subseteq ThreadIds \X Users
    /\ DOMAIN messages \subseteq MessageIds
    /\ nextThreadId \in 1..(MaxThreads + 1)
    /\ nextMessageId \in 1..(MaxMessages + 1)
    /\ IsABag(inflight) /\ BagCardinality(inflight) <= NumWorkers
    /\ resp.status \in {0, HTTP_200_OK, HTTP_201_CREATED, HTTP_204_NO_CONTENT, HTTP_400_BAD_REQUEST,
                        HTTP_403_FORBIDDEN, HTTP_404_NOT_FOUND,
                        HTTP_500_INTERNAL_SERVER_ERROR}
    /\ resp.thread \in ThreadIds \cup {None}

(* =============================== claims ================================ *)

\* Necessary conditions of a step of each handler, read off the handler's
\* branches (each branch answers under the handler's own op, or puts the
\* request in flight).  The formulas below use them to pass over the steps of
\* the other handlers before quantifying over the request's parameters.
MayBeThreadPost  == resp'.op = "create_thread" \/ inflight' # inflight
MayBeMessagePost == resp'.op = "create_message" \/ inflight' # inflight
MayBeMarkAll     == resp'.op = "mark_all"
MayBeMarkOne     == resp'.op = "mark_one"

MayBeDelete      == resp'.op = "delete_thread"

MayBeListMessages == resp'.op = "list_messages"

MayBeListThreads  == resp'.op = "list_threads"
MayBeUnreadCount  == resp'.op = "unread_count"

\* the user is a participant of the thread, read off the join table
IsParticipant(u, t) == t \in threads /\ <<t, u>> \in thread_participants

(* C1: in every reachable state no two threads have the same participant   *)
(* set, also when two create-or-get requests for one pair interleave       *)
(* between the lookup and the insert.                                      *)
C1_NoTwoThreadsForOnePair ==
    \A t1 \in threads, t2 \in threads :
        t1 # t2 => participants(t1) # participants(t2)

\* the threads whose participants are exactly the pair, in a given store
ThreadsOf(ts, links, pair) == {t \in ts : participants_in(links, t) = pair}

C4_SelfThreadRejected ==
    [][ MayBeThreadPost =>
        \A u \in Users :
            ThreadListCreateAPI_post(u, u)
            => ( /\ resp'.op = "create_thread"
                 /\ resp'.status = HTTP_400_BAD_REQUEST
                 /\ inflight' = inflight
                 /\ UNCHANGED store )
      ]_vars

\* a create request was just answered 400 (only the self-thread check answers
\* 400 to it) while threads exist
C4_Witness ==
    /\ resp.op = "create_thread" /\ resp.status = HTTP_400_BAD_REQUEST
    /\ threads # {}

(* C5: a create-or-get whose participant id names no user is answered 404  *)
(* and creates no thread and no participant link, then or later.           *)
C5_ParticipantNotFound ==
    [][ MayBeThreadPost =>
        \A u \in Users, p \in UserIds \ Users :
            ThreadListCreateAPI_post(u, p)
            => ( /\ resp'.op = "create_thread"
                 /\ resp'.status = HTTP_404_NOT_FOUND
                 /\ inflight' = inflight
                 /\ UNCHANGED store )
      ]_vars

\* a create request was just answered 404
C5_Witness ==
    /\ resp.op = "create_thread" /\ resp.status = HTTP_404_NOT_FOUND
    /\ threads # {}

\* a message that is read stays read in this step (or is deleted)
ReadStaysRead ==
    \A m \in DOMAIN messages :
        (messages[m].is_read /\ m \in DOMAIN messages') => messages'[m].is_read

(* C6 as stated: once a message has is_read = true, no operation of the    *)
(* program (admin actions included) sets it back to false.                 *)
C6_Original == [][ReadStaysRead]_vars

(* C6 as amended: once a message has is_read = true, the only operation    *)
(* that sets it back to false is the admin action mark_as_unread; no       *)
(* request of the API and no other admin action does.                      *)
C6_ReadMonotoneButAdminUnread ==
    [][ ReadStaysRead
        \/ \E u \in Users, q \in SUBSET DOMAIN messages :
                MessageAdmin_mark_as_unread(u, q)
      ]_vars

\* a mark-all request has just succeeded on a thread and a read message exists
C6_Witness ==
    /\ resp.op = "mark_all" /\ resp.status = HTTP_204_NO_CONTENT
    /\ \E m \in DOMAIN messages : messages[m].is_read

(* C7: post-message and mark-all-read by a user who is not a participant   *)
(* of the (existing) thread are answered 403 and change nothing.           *)
C7_NonParticipantForbidden ==
    [][ /\ MayBeMessagePost =>
           \A u \in Users, t \in threads, x \in Texts :
            ( ~IsParticipant(u, t) /\ MessageListCreateAPI_post(u, t, x) )
            => ( /\ resp'.status = HTTP_403_FORBIDDEN
                 /\ inflight' = inflight
                 /\ UNCHANGED store )
        /\ MayBeMarkAll =>
           \A u \in Users, t \in threads :
            ( ~IsParticipant(u, t) /\ MessageListCreateAPI_patch(u, t) )
            => ( /\ resp'.status = HTTP_403_FORBIDDEN
                 /\ UNCHANGED store )
      ]_vars

\* a mark-all request was just answered 403 while every thread id names an
\* existing thread (so the requester is a non-participant of an existing
\* thread) and an unread message exists
C7_Witness ==
    /\ resp.op = "mark_all" /\ resp.status = HTTP_403_FORBIDDEN
    /\ threads = ThreadIds
    /\ \E m \in DOMAIN messages : ~messages[m].is_read

(* C8: in every reachable state the sender of every message is one of the  *)
(* participants of the message's thread.                                   *)
C8_SenderIsParticipant ==
    \A m \in DOMAIN messages :
        /\ messages[m].thread \in threads
        /\ messages[m].sender \in participants(messages[m].thread)

\* a message has just been posted through the API
C8_Witness ==
    /\ resp.op = "create_message" /\ resp.status = HTTP_201_CREATED
    /\ DOMAIN messages # {}

\* the rule of the specification for marking one message
MayMark(u, m) ==
    is_staff(u) \/ (messages[m].sender # u /\ IsParticipant(u, messages[m].thread))

(* C9: marking message M (addressed under its own thread) is answered 403  *)
(* unless the actor is an admin or is a participant of M's thread who did  *)
(* not send M; on 403 no is_read flag changes.                             *)
C9_MarkOneForbidden ==
    [][ MayBeMarkOne =>
        \A u \in Users, m \in DOMAIN messages :
            ( ~MayMark(u, m) /\ MessageDetailAPI_patch(u, messages[m].thread, m) )
            => ( /\ resp'.status = HTTP_403_FORBIDDEN
                 /\ UNCHANGED store )
      ]_vars

\* a mark-one request was just answered 403 while every message is in a
\* thread of user1 and user2: the actor is not staff, so it is user1 or user2,
\* a participant, and was refused for being the sender
C9_Witness ==
    /\ resp.op = "mark_one" /\ resp.status = HTTP_403_FORBIDDEN
    /\ DOMAIN messages # {}
    /\ \A m \in DOMAIN messages : participants(messages[m].thread) = {user1, user2}

(* C10: whenever marking one message is answered 204, the message has      *)
(* is_read = true afterwards, the actor being a non-sender participant or  *)
(* an admin (participant or not, sender or not).                           *)
C10_MarkOneMarks ==
    [][ MayBeMarkOne =>
        \A u \in Users, t \in ThreadIds, m \in DOMAIN messages :
            ( MessageDetailAPI_patch(u, t, m) /\ resp'.status = HTTP_204_NO_CONTENT )
            => ( m \in DOMAIN messages' /\ messages'[m].is_read )
      ]_vars

\* the messages the specification counts as unread for U
UnreadFor(U) ==
    {m \in DOMAIN messages :
        /\ IsParticipant(U, messages[m].thread)
        /\ ~messages[m].is_read
        /\ messages[m].sender # U}

(* C11: in every reachable state and for every user U, both                *)
(* MessageService.get_unread_count(U) and                                  *)
(* UserService.get_user_unread_messages_count(U) equal the number of       *)
(* messages in a thread U participates in that are unread and were not     *)
(* sent by U.                                                              *)
C11_UnreadCount ==
    \A U \in Users :
        /\ get_unread_count(U) = Cardinality(UnreadFor(U))
        /\ get_user_unread_messages_count(U) = Cardinality(UnreadFor(U))

\* some user has an unread message to read, next to an unread message in one
\* of their threads that does not count for them because they sent it
C11_Witness ==
    \E U \in Users :
        /\ get_unread_count(U) > 0
        /\ \E m \in DOMAIN messages :
                /\ IsParticipant(U, messages[m].thread)
                /\ ~messages[m].is_read
                /\ messages[m].sender = U


C14_DeleteOnlyByParticipant ==
    [][ /\ MayBeDelete =>
           \A u \in Users, t \in threads :
            ( ~IsParticipant(u, t) /\ ThreadDetailAPI_delete(u, t) )
            => ( /\ resp'.status = HTTP_403_FORBIDDEN
                 /\ UNCHANGED store )
        /\ ~(threads \subseteq threads') =>
           \E u \in Users, t \in threads :
                /\ IsParticipant(u, t)
                /\ ThreadDetailAPI_delete(u, t)
                /\ threads' = threads \ {t}
      ]_vars

\* a delete has just been answered 403 while every thread id names a thread
\* of user1 and user2 with a message: the refused requester is the admin
C14_Witness ==
    /\ resp.op = "delete_thread" /\ resp.status = HTTP_403_FORBIDDEN
    /\ threads = ThreadIds
    /\ \A t \in threads : participants(t) = {user1, user2}
    /\ DOMAIN messages # {}


\* the thread id was issued and its thread has been deleted
Gone(t) == t \notin threads /\ t < nextThreadId

\* a successful delete removes, in its one step, the thread, its participant
\* links and its messages, and nothing else; no message is ever left without
\* its thread
DeleteRemovesAll ==
    /\ MayBeDelete =>
        \A u \in Users, t \in threads :
            ( ThreadDetailAPI_delete(u, t) /\ resp'.status = HTTP_204_NO_CONTENT )
            => ( /\ threads' = threads \ {t}
                 /\ thread_participants' = {l \in thread_participants : l[1] # t}
                 /\ DOMAIN messages' = {m \in DOMAIN messages : messages[m].thread # t}
                 /\ \A m \in DOMAIN messages' : messages'[m] = messages[m] )
    /\ \A m \in DOMAIN messages' : messages'[m].thread \in threads'

\* the id of a deleted thread never names a thread again
GoneStaysGone == \A t \in ThreadIds : Gone(t) => Gone(t)'

\* a later delete, post or mark naming the id of a deleted thread is refused
\* with 404 or 403 and changes nothing
GoneRefusesWrites ==
    /\ MayBeDelete =>
        \A u \in Users, t \in ThreadIds :
            ( Gone(t) /\ ThreadDetailAPI_delete(u, t) )
            => ( resp'.status = HTTP_404_NOT_FOUND /\ UNCHANGED store )
    /\ MayBeMessagePost =>
        \A u \in Users, t \in ThreadIds, x \in Texts :
            ( Gone(t) /\ MessageListCreateAPI_post(u, t, x) )
            => ( /\ resp'.status = HTTP_403_FORBIDDEN
                 /\ inflight' = inflight /\ UNCHANGED store )
    /\ MayBeMarkAll =>
        \A u \in Users, t \in ThreadIds :
            ( Gone(t) /\ MessageListCreateAPI_patch(u, t) )
            => ( resp'.status = HTTP_403_FORBIDDEN /\ UNCHANGED store )
    /\ MayBeMarkOne =>
        \A u \in Users, t \in ThreadIds, m \in MessageIds :
            ( Gone(t) /\ MessageDetailAPI_patch(u, t, m) )
            => ( resp'.status = HTTP_404_NOT_FOUND /\ UNCHANGED store )

\* a later listing of the messages under the id of a deleted thread is
\* refused with 404 or 403
GoneRefusesListing ==
    MayBeListMessages =>
        \A u \in Users, t \in ThreadIds, o \in Orderings :
            ( Gone(t) /\ MessageListCreateAPI_get(u, t, o) )
            => resp'.status \in {HTTP_404_NOT_FOUND, HTTP_403_FORBIDDEN}

\* what of C15 the program does: everything but the listing
C15_ExceptListing ==
    [][DeleteRemovesAll /\ GoneStaysGone /\ GoneRefusesWrites]_vars

(* C15: a successful delete removes the thread and all its messages in one *)
(* step, no message is ever observable without its thread, messages of     *)
(* other threads are untouched, and every later request naming the id of   *)
(* the deleted thread (listing its messages, delete, post, mark) is        *)
(* answered not-found or forbidden.                                        *)
C15_DeleteAtomicThenGone ==
    [][DeleteRemovesAll /\ GoneStaysGone /\ GoneRefusesWrites /\ GoneRefusesListing]_vars


(* C16: a post by participant A of thread T with text X is carried to its  *)
(* insert unchanged, and when the insert is answered 201 the listing of T  *)
(* is the listing before it followed by exactly one new message, which has *)
(* sender A, text X and is_read = false; every message that existed is     *)
(* still there and unchanged.                                              *)
C16_PostAppendsOne ==
    [][ MayBeMessagePost =>
        /\ \A u \in Users, t \in threads, x \in Texts :
            ( IsParticipant(u, t) /\ MessageListCreateAPI_post(u, t, x) )
            => ( /\ inflight' = inflight (+) SetToBag({MessageRequest(u, t, x)})
                 /\ UNCHANGED store )
        /\ \A r \in BagToSet(inflight) :
            ( /\ r.kind = "create_message"
              /\ MessageListCreateAPI_post_create(r)
              /\ resp'.status = HTTP_201_CREATED )
            => LET before == get_thread_messages(r.thread)
                   after  == get_thread_messages(r.thread)'
               IN  /\ Len(after) = Len(before) + 1
                   /\ SubSeq(after, 1, Len(before)) = before
                   /\ after[Len(after)] \notin DOMAIN messages
                   /\ DOMAIN messages' = DOMAIN messages \cup {after[Len(after)]}
                   /\ messages'[after[Len(after)]].thread = r.thread
                   /\ {messages'[after[Len(after)]].sender} = r.users
                   /\ messages'[after[Len(after)]].text = r.text
                   /\ messages'[after[Len(after)]].is_read = FALSE
                   /\ \A m \in DOMAIN messages : messages'[m] = messages[m]
      ]_vars

\* a post has just been answered 201 and a thread lists two messages
C16_Witness ==
    /\ resp.op = "create_message" /\ resp.status = HTTP_201_CREATED
    /\ \E t \in threads : Len(get_thread_messages(t)) = 2


(* C17: whenever a request can be served, the answer to listing the        *)
(* threads of user U and to reading the unread count of U is 200, with U's *)
(* threads and U's count, iff the requester is staff or is U; any other    *)
(* requester is answered 403 and is given no data.  (The two handlers      *)
(* answer with these responses and write nothing.)                         *)
C17_UserScopedAccess ==
    Sent =>
    \A u \in Users, U \in UserIds :
        /\ \A o \in Orderings :
            LET r == UserThreadListAPI_get_response(u, U, o)
            IN  IF is_staff(u) \/ u = U
                THEN /\ r.status = HTTP_200_OK
                     /\ Range(r.data) = {t \in threads : IsParticipant(U, t)}
                ELSE /\ r.status = HTTP_403_FORBIDDEN
                     /\ r.data = <<>>
        /\ LET r == UserUnreadMessagesCountAPI_get_response(u, U)
           IN  IF is_staff(u) \/ u = U
               THEN /\ r.status = HTTP_200_OK
                    /\ r.data = <<Cardinality(UnreadFor(U))>>
               ELSE /\ r.status = HTTP_403_FORBIDDEN
                    /\ r.data = <<>>

\* a listing of a user's threads has just been refused while every user is
\* in some thread
C17_Witness ==
    /\ resp.op = "list_threads" /\ resp.status = HTTP_403_FORBIDDEN
    /\ \A U \in Users : \E t \in threads : IsParticipant(U, t)


(* C18: whenever a request can be served, listing the messages of an        *)
(* existing thread T for a user who is not a participant of T is answered  *)
(* 403 and carries none of T's messages.                                   *)
C18_ListingOnlyForParticipants ==
    Sent =>
    \A u \in Users, t \in threads, o \in Orderings :
        ~IsParticipant(u, t) =>
            LET r == MessageListCreateAPI_get_response(u, t, o)
            IN  /\ r.status = HTTP_403_FORBIDDEN
                /\ Range(r.data) \cap {m \in DOMAIN messages : messages[m].thread = t} = {}


\* what the lookup does guarantee: the thread it returns holds both users,
\* it returns one whenever a thread of exactly the two exists, and it does
\* not depend on the order of its arguments
C19_FindsThreadHoldingBoth ==
    \A a \in Users, b \in Users :
        a # b =>
        LET t == get_thread_by_participants(a, b)
        IN  /\ t # None => t \in threads /\ {a, b} \subseteq participants(t)
            /\ ThreadsOf(threads, thread_participants, {a, b}) # {} => t # None
            /\ t = get_thread_by_participants(b, a)

(* C19: for distinct users a and b the lookup returns a thread only if     *)
(* that thread's participants are exactly {a, b}, returns none when no     *)
(* such thread exists, and gives the same result for (a, b) and (b, a).    *)
C19_FindThreadBetweenExact ==
    \A a \in Users, b \in Users :
        a # b =>
        LET t == get_thread_by_participants(a, b)
            exact == ThreadsOf(threads, thread_participants, {a, b})
        IN  /\ t # None => t \in exact
            /\ exact = {} => t = None
            /\ t = get_thread_by_participants(b, a)


(* C20: a mark-one request naming an existing message M under a thread id  *)
(* other than M's own thread is answered 404, whoever the actor is, and    *)
(* changes nothing (M.is_read in particular).                              *)
(* (Stated by contraposition: a mark-one step that is not a 404 leaving the *)
(* store as it was is not the step of any request with a wrong thread id.) *)
C20_WrongThreadNotFound ==
    [][ MayBeMarkOne =>
        \/ /\ resp'.status = HTTP_404_NOT_FOUND
           /\ UNCHANGED store
        \/ \A u \in Users, m \in DOMAIN messages, t \in ThreadIds :
                t # messages[m].thread => ~MessageDetailAPI_patch(u, t, m)
      ]_vars

\* a mark-one request has just been answered 404 while every message id
\* names a message (so the 404 is for the thread of the path), one of them
\* unread, and every thread id names a thread
C20_Witness ==
    /\ resp.op = "mark_one" /\ resp.status = HTTP_404_NOT_FOUND
    /\ DOMAIN messages = MessageIds
    /\ threads = ThreadIds
    /\ \E m \in DOMAIN messages : ~messages[m].is_read


\* q lists exactly the threads of S, each once, most recently updated first
ListsNewestFirst(q, S) ==
    /\ Range(q) = S
    /\ Len(q) = Cardinality(S)
    /\ \A i \in 1..Len(q), j \in 1..Len(q) : i < j => Thread_updated(q[i]) > Thread_updated(q[j])

ListsOldestFirst(q, S) ==
    /\ Range(q) = S
    /\ Len(q) = Cardinality(S)
    /\ \A i \in 1..Len(q), j \in 1..Len(q) :
            i < j => Message_created(q[i]) < Message_created(q[j])

\* the claim as made: oldest first whatever the request says
C22_Original ==
    Sent =>
    \A u \in Users, t \in ThreadIds, o \in Orderings :
        ListsOldestFirst(MessageListCreateAPI_get_response(u, t, o).data,
                         {m \in DOMAIN messages : messages[m].thread = t})

(* C22: whenever a request can be served, listing the messages of a thread *)
(* answers exactly the messages of the thread, each once, oldest first,    *)
(* unless the request names the ordering "-created": then it answers them  *)
(* newest first.                                                           *)
C22_OldestFirstUnlessAsked ==
    Sent =>
    \A u \in Users, t \in ThreadIds, o \in Orderings :
        LET r == MessageListCreateAPI_get_response(u, t, o)
            of_t == {m \in DOMAIN messages : messages[m].thread = t}
        IN  /\ r.status = HTTP_200_OK
            /\ IF o = "-created" THEN ListsOldestFirst(Reverse(r.data), of_t)
                                 ELSE ListsOldestFirst(r.data, of_t)

\* a listing of two messages has just been answered newest first
C22_Witness ==
    /\ resp.op = "list_messages" /\ resp.status = HTTP_200_OK
    /\ Len(resp.data) = 2
    /\ Message_created(resp.data[1]) > Message_created(resp.data[2])


\* the rows the update of mark_messages_as_read(u, ids) may touch
Eligible(u, ids, m) ==
    /\ m \in ids
    /\ IsParticipant(u, messages[m].thread)
    /\ messages[m].sender # u
    /\ ~messages[m].is_read

\* applied to any user and any set of ids, the update keeps the rows of the
\* table, sets is_read on the eligible rows and leaves every other row as it is
MarkIsSafe ==
    \A u \in Users, ids \in SUBSET MessageIds :
        mark_messages_as_read(u, ids) =
            [m \in DOMAIN messages |->
                IF Eligible(u, ids, m) THEN [messages[m] EXCEPT !.is_read = TRUE]
                                       ELSE messages[m]]

(* C23: whenever a request can be served, mark_messages_as_read(user, ids) *)
(* for any user and any set of ids changes a message only if its id is in  *)
(* ids, user is a participant of its thread, user did not send it and it   *)
(* was unread, and then only sets its is_read; and every step of the two   *)
(* handlers that call it leaves the threads, their participants and the    *)
(* set of messages as they were, and no message other than unread ones     *)
(* becoming read is changed.                                               *)
C23_MarkSafeForAnyIds ==
    /\ [](Sent => MarkIsSafe)
    /\ [][ (MayBeMarkAll \/ MayBeMarkOne) =>
            /\ UNCHANGED <<threads, thread_participants>>
            /\ DOMAIN messages' = DOMAIN messages
            /\ \A m \in DOMAIN messages :
                    messages'[m] # messages[m] =>
                        /\ ~messages[m].is_read
                        /\ messages'[m] = [messages[m] EXCEPT !.is_read = TRUE]
          ]_vars

\* a mark-all has just succeeded and left one message of a thread unread
\* beside a read one of the same thread with another sender
C23_Witness ==
    /\ resp.op = "mark_all" /\ resp.status = HTTP_204_NO_CONTENT
    /\ \E m \in DOMAIN messages, n \in DOMAIN messages :
            /\ messages[m].thread = messages[n].thread
            /\ messages[m].sender # messages[n].sender
            /\ messages[m].is_read /\ ~messages[n].is_read


(* C24: in every reachable state every message belongs to an existing      *)
(* thread; and when the insert of a post whose participant check passed    *)
(* runs after the thread has been deleted, it is not answered 201 and      *)
(* persists nothing (a post whose insert ran before the delete has its     *)
(* message removed with the thread, by the first part).                    *)
C24_NoOrphanMessages ==
    /\ [](\A m \in DOMAIN messages : messages[m].thread \in threads)
    /\ [][ MayBeMessagePost =>
            \A r \in BagToSet(inflight) :
                ( /\ r.kind = "create_message"
                  /\ r.thread \notin threads
                  /\ MessageListCreateAPI_post_create(r) )
                => ( /\ resp'.status # HTTP_201_CREATED
                     /\ UNCHANGED store )
          ]_vars

\* the insert of a post has just been refused: its thread was deleted after
\* the participant check, and a message of another thread is there
C24_Witness ==
    /\ resp.op = "create_message" /\ resp.status = HTTP_500_INTERNAL_SERVER_ERROR
    /\ \E t \in ThreadIds : Gone(t)
    /\ DOMAIN messages # {}

=============================================================================
